---- MODULE Spec2Model ----
(***************************************************************************)
(* Model of new_cadastr_kvartal.py: the resumable sequential-probe scanner *)
(* LandParcelScanner (scan, save_progress, load_progress, the SIGINT       *)
(* handler) and the operator flow main() that drives it.                   *)
(*                                                                         *)
(* One behaviour is a sequence of process runs against one remote lookup   *)
(* service and one file system.  A run is either the operator flow main()  *)
(* (it starts at "check") or the scanner used through its methods:         *)
(* LandParcelScanner(block, start, end), optionally load_progress(), then  *)
(* scan() (it starts at "start").                                          *)
(***************************************************************************)
EXTENDS Integers, Sequences, FiniteSets, TLC

VARIABLES
    world,            \* the remote service: identifier -> kind of answer
    rstart, rend,     \* the range the caller / operator asks for
    runs,             \* number of process runs started so far
    temp_file,        \* the content of the file at self.temp_file, in the folder
                      \* of the minute at which the current run was created
    older,            \* history: the folder of an earlier minute holds a checkpoint
    pc,               \* control location of the current run
    exc,              \* the exception propagating out of scan()'s try body
    start, end,       \* self.start, self.end
    current_num,      \* self.current_num
    found_count,      \* self.found_count
    not_found_streak, \* self.not_found_streak
    land_parcels,     \* self.land_parcels
    data,             \* the local `data` of scan(): result of fetch_parcel_data
    loaded,           \* history: the checkpoint load_progress read in this run
    classifiedTo,     \* history: the last identifier this run classified (0: none)
    probed,           \* history: the last identifier this run looked up (0: none)
    lastSave,         \* history: the last call of save_progress in this run
    taken             \* history: how far the scan was when temp_file was written

vars == <<world, rstart, rend, runs, temp_file, older, pc, exc, start, end,
          current_num, found_count, not_found_streak, land_parcels, data,
          loaded, classifiedTo, probed, lastSave, taken>>

-----------------------------------------------------------------------------
(* Program constants *)

kvartal_number == "77:01:0001001"
default_start == 1
default_end == 9999
max_not_found == 100
save_every_found == 10
save_every_num == 50

(* Bounds of the exploration *)

\* short ranges lie within 1..SmallMax; every lookup pattern over them is explored
SmallMax == 2
\* number of process runs in a behaviour (runs after the first: short ranges only)
MaxRuns == 2
\* the end of the range of the worked example of the specification (range 1..5)
ExampleEnd == 5

-----------------------------------------------------------------------------
(* The remote lookup service and the answers of fetch_parcel_data *)

\* "none":      fetch_parcel_data returns None (404, unexpected status, exception)
\* "nofeature": a payload with no feature of category 'Земельные участки ЕГРН',
\*              or one parse_parcel_data fails on: parse_parcel_data returns None
\* "found":     a payload with such a feature: parse_parcel_data returns a record
Kinds == {"none", "nofeature", "found"}
Misses == {"none", "nofeature"}

Min(a, b) == IF a <= b THEN a ELSE b

\* the long range: one identifier more than the early-stop limit
LongEnd == max_not_found + 1

\* parcel_num = f"{kvartal_number}:{current_num}"
ParcelNum(n) == <<kvartal_number, n>>

\* fetch_parcel_data(parcel_num): None, or the payload of the service
FetchParcelData(n) == IF world[n] = "none" THEN "None" ELSE world[n]

\* None as returned by parse_parcel_data
NoRecord == <<>>

\* parse_parcel_data(data, parcel_num): the record (its cadastral number:
\* options.get('cad_num', parcel_num)) or None
ParseParcelData(d, n) == IF d = "found" THEN ParcelNum(n) ELSE NoRecord

-----------------------------------------------------------------------------
(* The checkpoint store *)

\* no file at the path; a file json.load fails on; no save_progress call yet
NoFile == [kind |-> "NoFile"]
Corrupt == [kind |-> "Corrupt"]
NoSave == [by |-> "none"]
\* history of a file: k, the last identifier classified when it was written, and
\* whether the run that wrote it had started without a checkpoint
NoTake == [k |-> 0, fresh |-> FALSE]
NotLoaded == [ckpt |-> NoFile, k |-> 0, fresh |-> FALSE, via |-> "none", ret |-> FALSE]
\* minutes between the creation of two consecutive runs: none, or some
Elapsed == {0, 1}

\* outcomes of the file operations of save_progress and load_progress: all
\* succeed, open() raises, json.dump raises after the file was truncated, the
\* export to_excel raises after the checkpoint file was handled
IOOutcomes == {"ok", "open_failed", "dump_failed", "export_failed"}

\* the export runs only when there are records: `if self.land_parcels:`
ExportRuns(recs) == recs # <<>>

\* the outcomes save_progress can have with the records recs
SaveOutcomes(recs) ==
    IF ExportRuns(recs) THEN IOOutcomes ELSE IOOutcomes \ {"export_failed"}

\* the exception a file operation raises: OSError, TypeError, ValueError,
\* KeyError, ImportError are all subclasses of Exception
Failure(io) == IF io = "ok" THEN "none" ELSE "Exception"

\* an except clause that catches nothing / a bare except
CaughtNothing(e) == FALSE
CaughtAll(e) == TRUE

\* `except Exception` of save_progress and of load_progress
CaughtInStore(e) == e = "Exception"

\* the failure of the file operation propagates out of the call
Escapes(io) == Failure(io) # "none" /\ ~CaughtInStore(Failure(io))

\* the return value of save_progress / load_progress
Returned(io) == io = "ok"

\* json.load succeeds on the file
Readable(f) == "metadata" \in DOMAIN f

\* progress_data of save_progress
ProgressData ==
    [metadata |-> [kvartal |-> kvartal_number, start_num |-> start,
                   end_num |-> end, last_checked |-> current_num],
     stats |-> [total_checked |-> current_num - start, found_count |-> found_count],
     land_parcels |-> land_parcels]

\* the content of temp_file after save_progress with outcome io
Written(old, io) ==
    IF io \in {"ok", "export_failed"} THEN ProgressData
    ELSE IF io = "dump_failed" THEN Corrupt
    ELSE old

\* open(self.temp_file, 'w') has truncated the file: json.load fails on it
Truncated == Corrupt

\* the content of the file after the write of the interrupt handler, made
\* while another handle to the same file was open in the interrupted
\* save_progress: that handle is closed, and its buffer flushed into the file,
\* while SystemExit unwinds.  The flushed bytes land on the bytes the handler
\* wrote: they are the same text when both serialisations have the same width
\* and a mix of two texts when they have not (the timestamp of isoformat() has
\* no fraction when the microsecond is 0)
Interleaved(f) == {f, Corrupt}

\* save_progress(), called from `by`, leaving the file with content f
SaveInto(f, io, by) ==
    /\ temp_file' = f
    /\ lastSave' = [by |-> by, ok |-> Returned(io), data |-> ProgressData,
                    at |-> pc, k |-> classifiedTo]
    /\ taken' = IF io \in {"ok", "export_failed"} /\ Readable(f)
                THEN [k |-> classifiedTo, fresh |-> ~Readable(loaded.ckpt)]
                ELSE taken

\* save_progress(), called from `by`
SaveProgress(io, by) == SaveInto(Written(temp_file, io), io, by)

\* load_progress reads a checkpoint: the resume point and the count
ResumePoint(d) == d.metadata.last_checked + 1
LoadedCount(d) == Len(d.land_parcels)

\* os.path.exists(self.temp_file)
TempFileExists == temp_file # NoFile

\* folder_name of a run created t minutes after a run whose folder was created
\* at minute 0: f"results_{datetime.now().strftime('%Y-%m-%d_%H-%M')}"
FolderName(t) == <<"results", t>>

-----------------------------------------------------------------------------
(* Control locations *)

\* inside the try block of scan()
LoopPcs == {"loop", "fetch", "classify", "count", "reset", "ckpt", "stop",
            "sleep", "advance"}
\* inside save_progress, called by scan(): the file is open and truncated,
\* json.dump and the export are still to run
DumpPcs == {"ckpt_dump", "final_dump"}
TryPcs == LoopPcs \cup {"final", "report"} \cup DumpPcs
\* where a call of the try block may raise: everywhere but in front of the two
\* assignments that follow the append (found_count += 1, not_found_streak = 0)
\* and inside save_progress, which catches what its calls raise
RaisePcs == TryPcs \ ({"count", "reset"} \cup DumpPcs)
\* main() before scan(); "mfail": load_progress has returned False
MainPcs == {"check", "mload", "mfail", "range"}
\* a user of the class before scan(); "lfail": load_progress has returned False
ApiPcs == {"start", "load", "lfail"}
EndPcs == {"done", "failed", "exited"}

\* `except Exception` of scan(): SystemExit is not an Exception
Caught(e) == e = "Exception"

\* a periodic checkpoint condition that needs no find for the multiples of
\* save_every_num
CheckpointDueAsStated(fc, n) ==
    (fc > 0 /\ fc % save_every_found = 0) \/ n % save_every_num = 0

\* the periodic checkpoint condition of scan()
CheckpointDue(fc, n) ==
    fc > 0 /\ (fc % save_every_found = 0 \/ n % save_every_num = 0)

\* the early-stop condition of scan()
StopDue(streak) == streak >= max_not_found

\* an advance that leaves an identifier out
NextNumSkip(n) == n + 2

NextNum(n) == n + 1

\* a record put at the head of the list instead of its end
AppendedFirst(recs, r) == <<r>> \o recs

Appended(recs, r) == Append(recs, r)

-----------------------------------------------------------------------------
(* Initial states: the first run has just constructed its scanner *)

ShortScenario ==
    /\ rstart \in 1..SmallMax
    /\ rend \in rstart..SmallMax
    /\ world \in [1..rend -> Kinds]

ExampleScenario ==
    /\ rstart = 1
    /\ rend = ExampleEnd
    /\ \E m \in Misses : world = [i \in 1..ExampleEnd |-> IF i = 3 THEN "found" ELSE m]

LongScenario ==
    /\ rstart = 1
    /\ rend = LongEnd
    /\ \E m \in Misses, f \in {"found", "none"}, l \in {"found", "none"} :
          world = [i \in 1..LongEnd |->
                      IF i = 1 THEN f ELSE IF i = LongEnd THEN l ELSE m]

\* a range of save_every_found identifiers, all found but possibly the first
DenseScenario ==
    /\ rstart = 1
    /\ rend = save_every_found
    /\ \E f \in {"found", "none"} :
          world = [i \in 1..save_every_found |-> IF i = 1 THEN f ELSE "found"]

Init ==
    /\ (ShortScenario \/ ExampleScenario \/ LongScenario \/ DenseScenario)
    /\ runs = 1
    /\ temp_file = NoFile
    /\ older = FALSE
    /\ pc \in {"check", "start"}
    /\ exc = "none"
    /\ start = IF pc = "check" THEN default_start ELSE rstart
    /\ end = IF pc = "check" THEN default_end ELSE rend
    /\ current_num = start
    /\ found_count = 0
    /\ not_found_streak = 0
    /\ land_parcels = <<>>
    /\ data = "None"
    /\ loaded = NotLoaded
    /\ classifiedTo = 0
    /\ probed = 0
    /\ lastSave = NoSave
    /\ taken = NoTake

scanner == <<start, end, current_num, found_count, not_found_streak, land_parcels>>
scenario == <<world, rstart, rend>>
process == <<runs, older>>
history == <<loaded, classifiedTo, probed>>

-----------------------------------------------------------------------------
(* A later run: LandParcelScanner.__init__ in a new process *)

NewRun ==
    /\ pc \in EndPcs
    /\ runs < MaxRuns
    /\ rend <= SmallMax
    /\ runs' = runs + 1
    /\ \E t \in Elapsed :
          IF FolderName(t) = FolderName(0)
          THEN UNCHANGED <<temp_file, taken, older>>
          ELSE /\ temp_file' = NoFile
               /\ taken' = NoTake
               /\ older' = (older \/ Readable(temp_file))
    /\ pc' \in {"check", "start"}
    /\ start' = IF pc' = "check" THEN default_start ELSE rstart
    /\ end' = IF pc' = "check" THEN default_end ELSE rend
    /\ current_num' = start'
    /\ exc' = "none"
    /\ found_count' = 0
    /\ not_found_streak' = 0
    /\ land_parcels' = <<>>
    /\ data' = "None"
    /\ loaded' = NotLoaded
    /\ classifiedTo' = 0
    /\ probed' = 0
    /\ lastSave' = NoSave
    /\ UNCHANGED scenario

-----------------------------------------------------------------------------
(* The caller of the methods: load_progress() or not, then scan() *)

ApiStart ==
    /\ pc = "start"
    /\ pc' \in {"load", "loop"}
    /\ UNCHANGED <<scenario, process, temp_file, exc, scanner, data, history,
                   lastSave, taken>>

(* main(): the check for a previous run and the operator's choice *)

MainCheck ==
    /\ pc = "check"
    /\ IF TempFileExists
       THEN \E choice \in {"y", "n"} :
               IF choice = "y"
               THEN pc' = "mload" /\ UNCHANGED <<temp_file, taken>>
               ELSE /\ pc' = "range"
                    /\ temp_file' = NoFile
                    /\ taken' = NoTake
       ELSE pc' = "range" /\ UNCHANGED <<temp_file, taken>>
    /\ UNCHANGED <<scenario, process, exc, scanner, data, history, lastSave>>

(* load_progress() *)

\* what the file operations of load_progress can do on the file f: json.load
\* raises, all succeed, or the export raises after the state was assigned
LoadOutcomes(f) ==
    IF ~Readable(f) THEN {"load_failed"}
    ELSE IF ExportRuns(f.land_parcels) THEN {"ok", "export_failed"} ELSE {"ok"}

\* where the caller stands after load_progress returned ret
AfterLoad(at, ret) ==
    IF at = "mload" THEN (IF ret THEN "range" ELSE "mfail")
    ELSE (IF ret THEN "loop" ELSE "lfail")

LoadProgress ==
    /\ pc \in {"load", "mload"}
    /\ IF ~TempFileExists
       THEN /\ pc' = AfterLoad(pc, FALSE)
            /\ UNCHANGED <<land_parcels, found_count, current_num, loaded, exc>>
       ELSE \E io \in LoadOutcomes(temp_file) :
               /\ IF Readable(temp_file)
                  THEN /\ land_parcels' = temp_file.land_parcels
                       /\ found_count' = LoadedCount(temp_file)
                       /\ current_num' = ResumePoint(temp_file)
                       /\ loaded' = [ckpt |-> temp_file, k |-> taken.k,
                                      fresh |-> taken.fresh, via |-> pc,
                                      ret |-> Returned(io)]
                  ELSE UNCHANGED <<land_parcels, found_count, current_num, loaded>>
               /\ pc' = IF Escapes(io) THEN "exited" ELSE AfterLoad(pc, Returned(io))
               /\ exc' = IF Escapes(io) THEN Failure(io) ELSE exc
    /\ UNCHANGED <<scenario, process, temp_file, start, end, not_found_streak,
                   data, classifiedTo, probed, lastSave, taken>>

(* load_progress() returned False: main() prints that it starts over, a user
   of the class goes on to scan() *)

StartOver ==
    /\ pc \in {"mfail", "lfail"}
    /\ pc' = IF pc = "mfail" THEN "range" ELSE "loop"
    /\ UNCHANGED <<scenario, process, temp_file, exc, scanner, data, history,
                   lastSave, taken>>

(* main(): the range prompts and scanner.current_num = scanner.start *)

MainRange ==
    /\ pc = "range"
    /\ start' = rstart
    /\ end' = rend
    /\ current_num' = start'
    /\ pc' = "loop"
    /\ UNCHANGED <<scenario, process, temp_file, exc, found_count, not_found_streak,
                   land_parcels, data, history, lastSave, taken>>

-----------------------------------------------------------------------------
(* save_progress() called by scan(), in two steps: SIGINT can arrive between *)

\* up to `with open(self.temp_file, 'w')`: the file is open and truncated (go
\* on at dump), or open() raised and save_progress returns (go on at next)
OpenTempFile(by, dump, next) ==
    \E io \in {"ok", "open_failed"} :
        IF io = "ok"
        THEN /\ temp_file' = Truncated
             /\ pc' = dump
             /\ UNCHANGED <<lastSave, taken, exc>>
        ELSE /\ SaveProgress(io, by)
             /\ pc' = IF Escapes(io) THEN "raised" ELSE next
             /\ exc' = IF Escapes(io) THEN Failure(io) ELSE exc

\* json.dump, the export and the return
DumpTempFile(by, next) ==
    \E io \in SaveOutcomes(land_parcels) \ {"open_failed"} :
        /\ SaveProgress(io, by)
        /\ pc' = IF Escapes(io) THEN "raised" ELSE next
        /\ exc' = IF Escapes(io) THEN Failure(io) ELSE exc

-----------------------------------------------------------------------------
(* scan(): one action per statement of the loop *)

LoopTest ==
    /\ pc = "loop"
    /\ pc' = IF current_num <= end THEN "fetch" ELSE "final"
    /\ UNCHANGED <<scenario, process, temp_file, exc, scanner, data, history,
                   lastSave, taken>>

Fetch ==
    /\ pc = "fetch"
    /\ data' = FetchParcelData(current_num)
    /\ probed' = current_num
    /\ pc' = "classify"
    /\ UNCHANGED <<scenario, process, temp_file, exc, scanner, loaded, classifiedTo,
                   lastSave, taken>>

Classify ==
    /\ pc = "classify"
    /\ IF data = "None"
       THEN /\ not_found_streak' = not_found_streak + 1
            /\ land_parcels' = land_parcels
            /\ pc' = "ckpt"
       ELSE IF ParseParcelData(data, current_num) # NoRecord
            THEN /\ land_parcels' =
                       Appended(land_parcels, ParseParcelData(data, current_num))
                 /\ not_found_streak' = not_found_streak
                 /\ pc' = "count"
            ELSE /\ UNCHANGED <<land_parcels, not_found_streak>>
                 /\ pc' = "ckpt"
    /\ classifiedTo' = current_num
    /\ UNCHANGED <<scenario, process, temp_file, exc, start, end, current_num,
                   found_count, data, loaded, probed, lastSave, taken>>

Count ==
    /\ pc = "count"
    /\ found_count' = found_count + 1
    /\ pc' = "reset"
    /\ UNCHANGED <<scenario, process, temp_file, exc, start, end, current_num,
                   not_found_streak, land_parcels, data, history, lastSave, taken>>

Reset ==
    /\ pc = "reset"
    /\ not_found_streak' = 0
    /\ pc' = "ckpt"
    /\ UNCHANGED <<scenario, process, temp_file, exc, start, end, current_num,
                   found_count, land_parcels, data, history, lastSave, taken>>

Checkpoint ==
    /\ pc = "ckpt"
    /\ IF CheckpointDue(found_count, current_num)
       THEN OpenTempFile("periodic", "ckpt_dump", "stop")
       ELSE /\ pc' = "stop"
            /\ UNCHANGED <<temp_file, lastSave, taken, exc>>
    /\ UNCHANGED <<scenario, process, scanner, data, history>>

CheckpointDump ==
    /\ pc = "ckpt_dump"
    /\ DumpTempFile("periodic", "stop")
    /\ UNCHANGED <<scenario, process, scanner, data, history>>

StopCheck ==
    /\ pc = "stop"
    /\ pc' = IF StopDue(not_found_streak) THEN "final" ELSE "sleep"
    /\ UNCHANGED <<scenario, process, temp_file, exc, scanner, data, history,
                   lastSave, taken>>

Sleep ==
    /\ pc = "sleep"
    /\ pc' = "advance"
    /\ UNCHANGED <<scenario, process, temp_file, exc, scanner, data, history,
                   lastSave, taken>>

Advance ==
    /\ pc = "advance"
    /\ current_num' = NextNum(current_num)
    /\ pc' = "loop"
    /\ UNCHANGED <<scenario, process, temp_file, exc, start, end, found_count,
                   not_found_streak, land_parcels, data, history, lastSave, taken>>

(* the final save *)

FinalSave ==
    /\ pc = "final"
    /\ OpenTempFile("final", "final_dump", "report")
    /\ UNCHANGED <<scenario, process, scanner, data, history>>

FinalDump ==
    /\ pc = "final_dump"
    /\ DumpTempFile("final", "report")
    /\ UNCHANGED <<scenario, process, scanner, data, history>>

(* the report and the return *)

Report ==
    /\ pc = "report"
    /\ pc' = "done"
    /\ UNCHANGED <<scenario, process, temp_file, exc, scanner, data, history,
                   lastSave, taken>>

(* an unexpected exception raised inside the try block *)

Raise ==
    /\ pc \in RaisePcs
    /\ exc' = "Exception"
    /\ pc' = "raised"
    /\ UNCHANGED <<scenario, process, temp_file, scanner, data, history,
                   lastSave, taken>>

(* the except clause of scan() *)

ExceptClause ==
    /\ pc = "raised"
    /\ IF Caught(exc)
       THEN \E io \in SaveOutcomes(land_parcels) :
               /\ SaveProgress(io, "except")
               /\ pc' = IF Escapes(io) THEN "exited" ELSE "failed"
       ELSE /\ UNCHANGED <<temp_file, lastSave, taken>>
            /\ pc' = "exited"
    /\ UNCHANGED <<scenario, process, exc, scanner, data, history>>

(* SIGINT: handle_interrupt saves and raises SystemExit where the run stands;
   the handler runs between two bytecodes of the main thread, also between
   two of save_progress *)

HandleInterrupt ==
    /\ pc \in MainPcs \cup ApiPcs \cup TryPcs
    /\ \E io \in SaveOutcomes(land_parcels) :
          /\ IF pc \in DumpPcs
             THEN \E f \in Interleaved(Written(temp_file, io)) :
                     SaveInto(f, io, "handler")
             ELSE SaveProgress(io, "handler")
          /\ exc' = IF Escapes(io) THEN Failure(io) ELSE "SystemExit"
    /\ pc' = IF pc \in TryPcs THEN "raised" ELSE "exited"
    /\ UNCHANGED <<scenario, process, scanner, data, history>>

-----------------------------------------------------------------------------

Next ==
    \/ NewRun
    \/ ApiStart
    \/ MainCheck
    \/ LoadProgress
    \/ StartOver
    \/ MainRange
    \/ LoopTest
    \/ Fetch
    \/ Classify
    \/ Count
    \/ Reset
    \/ Checkpoint
    \/ CheckpointDump
    \/ StopCheck
    \/ Sleep
    \/ Advance
    \/ FinalSave
    \/ FinalDump
    \/ Report
    \/ Raise
    \/ ExceptClause
    \/ HandleInterrupt

Spec == Init /\ [][Next]_vars

TypeOK ==
    /\ pc \in TryPcs \cup MainPcs \cup ApiPcs \cup EndPcs \cup {"raised"}
    /\ found_count \in Nat
    /\ current_num \in Nat

-----------------------------------------------------------------------------
(* Vocabulary of the properties *)

\* F: the identifiers of the requested range the service answers with a parcel
Found == {i \in rstart..rend : world[i] = "found"}

\* the records of the identifiers of S, in ascending order of identifier
Ascending(S) ==
    [j \in 1..Cardinality(S) |->
        ParcelNum(CHOOSE x \in S : Cardinality({y \in S : y < x}) = j - 1)]

\* the run started without a checkpoint: a fresh scan
Fresh == ~Readable(loaded.ckpt)

\* the range holds max_not_found consecutive identifiers outside F
LongGap ==
    \E k \in rstart..rend :
        /\ k + max_not_found - 1 <= rend
        /\ \A i \in k..(k + max_not_found - 1) : world[i] # "found"

\* the records one uninterrupted scan() of [n, rend] ends with, entered with the
\* given streak and records: the loop of scan(), statement by statement
RECURSIVE ScanFrom(_, _, _)
ScanFrom(n, streak, recs) ==
    IF n > rend THEN recs
    ELSE LET d == FetchParcelData(n)
             r == ParseParcelData(d, n)
             recs2 == IF d # "None" /\ r # NoRecord THEN Appended(recs, r) ELSE recs
             streak2 == IF d = "None" THEN streak + 1
                        ELSE IF r # NoRecord THEN 0 ELSE streak
         IN  IF StopDue(streak2) THEN recs2
             ELSE ScanFrom(NextNum(n), streak2, recs2)

UninterruptedRecords == ScanFrom(rstart, 0, <<>>)

-----------------------------------------------------------------------------
(* C1 *)

\* C1 (as stated): a fresh scan() of the full range that returns ends with
\* records exactly {block:i | i in F}, ascending, without duplicates, for every
\* range and every F.
C1_FullRangeRecords ==
    (Fresh /\ pc = "done") => land_parcels = Ascending(Found)

\* C1 (amended): a fresh scan() that returns ends with records exactly
\* {block:i | i in F, i <= the last identifier probed}, ascending and without
\* duplicates; this is all of F whenever the range holds no max_not_found
\* consecutive identifiers outside F.
C1_FreshScanRecords ==
    (Fresh /\ pc = "done") =>
        /\ land_parcels = Ascending({i \in Found : i <= current_num})
        /\ (~LongGap => land_parcels = Ascending(Found))

C1_Witness ==
    /\ Fresh
    /\ pc = "done"
    /\ Cardinality(Found) = 2
    /\ land_parcels = <<ParcelNum(1), ParcelNum(2)>>

-----------------------------------------------------------------------------
(* C2 *)

\* the checkpoint this run loaded was taken by a fresh scan of the same range
\* after the identifiers [start, k] had been processed, for a k of [start, end]
LoadedAfterK ==
    /\ Readable(loaded.ckpt)
    /\ loaded.fresh
    /\ loaded.k \in rstart..rend
    /\ loaded.ckpt.metadata.start_num = rstart
    /\ loaded.ckpt.metadata.end_num = rend

\* C2: a scanner rehydrated with load_progress from a checkpoint taken after
\* [start, k] were processed, then scanned to its end, has the same final
\* records (same set, same order) as one uninterrupted scan of [start, end].
C2_ResumeIdempotent ==
    (loaded.via = "load" /\ loaded.ret /\ LoadedAfterK /\ pc = "done") =>
        land_parcels = UninterruptedRecords

-----------------------------------------------------------------------------
(* C3 *)

\* C3: in main(), after the operator chose to resume and the load succeeded, the
\* scan starts with the stored records, probes no identifier at or below the
\* stored last_checked and appends no stored record a second time.
C3_MainResumesAfterCheckpoint ==
    (loaded.via = "mload" /\ loaded.ret /\ pc \in LoopPcs \ {"loop"}) =>
        /\ current_num > loaded.ckpt.metadata.last_checked
        /\ \A i, j \in 1..Len(land_parcels) :
              land_parcels[i] = land_parcels[j] => i = j

-----------------------------------------------------------------------------
(* C4 *)

\* C4: the checkpoint the interrupt handler writes during a scan iteration of a
\* fresh scan has a last_checked whose identifier, like all before it, has been
\* classified, so resuming at last_checked + 1 skips no unclassified identifier.
C4_InterruptCheckpointClassified ==
    (Fresh /\ lastSave.by = "handler" /\ lastSave.ok /\ lastSave.at \in LoopPcs) =>
        /\ lastSave.data.metadata.last_checked <= lastSave.k
        /\ \A i \in rstart..Min(lastSave.data.metadata.last_checked, rend) :
              world[i] = "found" =>
                 \E j \in 1..Len(lastSave.data.land_parcels) :
                    lastSave.data.land_parcels[j] = ParcelNum(i)

-----------------------------------------------------------------------------
(* C5 *)

\* C5: a checkpoint an earlier run wrote for the block is found at the startup
\* of every later run for the same block, whenever that run starts.
C5_CheckpointFoundByLaterRun ==
    (runs > 1 /\ pc \in {"check", "start"} /\ (older \/ Readable(temp_file))) =>
        TempFileExists

-----------------------------------------------------------------------------
(* C6 *)

\* the probes k .. k + max_not_found - 1 of the scan are all not-found
\* outcomes, k < end, and the streak is 0 before k (k is the first identifier
\* of the scan, or follows a find)
MissRunFrom(k) ==
    /\ k < rend
    /\ k + max_not_found - 1 <= rend
    /\ k = rstart \/ world[k - 1] = "found"
    /\ \A i \in k..(k + max_not_found - 1) : world[i] \in Misses

\* C6: after max_not_found consecutive not-found probes from k (no matching
\* feature, no-resource signal or lookup error alike) the scan probes nothing
\* above k + 99 and ends with last_checked = k + 99 and not_found_streak = 100.
C6_EarlyStop ==
    \A k \in rstart..rend :
        (Fresh /\ MissRunFrom(k)) =>
            /\ pc \in LoopPcs \ {"loop"} => current_num <= k + max_not_found - 1
            /\ (pc = "done" /\ lastSave.ok) =>
                  /\ temp_file.metadata.last_checked = k + max_not_found - 1
                  /\ not_found_streak = max_not_found

-----------------------------------------------------------------------------
(* C7 *)

\* C7: every termination path (exhaustion, early stop, interrupt, exception in
\* the loop) calls save_progress after the last mutation of the scan state and
\* before the run returns or exits, also when nothing was found: the snapshot
\* of the last save is the final state, and it is the file unless the file
\* operation itself failed or the save interrupted another one.
C7_FinalCheckpoint ==
    pc \in EndPcs =>
        /\ lastSave.by # "none"
        /\ lastSave.data = ProgressData
        /\ (lastSave.ok /\ lastSave.at \notin DumpPcs) => temp_file = ProgressData

C7_Witness ==
    /\ pc = "done"
    /\ found_count = 0
    /\ current_num = rend + 1
    /\ lastSave.by = "final"
    /\ temp_file = ProgressData

-----------------------------------------------------------------------------
(* C8 *)

\* C8: an interrupt triggers exactly one save_progress, the handler's, and then
\* the exit: once SystemExit is raised the run makes no lookup, changes no
\* scanner state and calls save_progress no more (neither the final save nor
\* the except clause's), it only exits.
C8_InterruptSavesOnce ==
    [][ /\ (exc # "SystemExit" /\ exc' = "SystemExit") =>
              (lastSave'.by = "handler" /\ lastSave'.data = ProgressData
               /\ UNCHANGED <<scanner, data>>)
        /\ (exc = "SystemExit" /\ runs' = runs) =>
              (pc' = "exited" /\ UNCHANGED <<scanner, data, temp_file, lastSave>>)
      ]_vars

C8_Witness ==
    /\ pc = "exited"
    /\ exc = "SystemExit"
    /\ lastSave.by = "handler"
    /\ lastSave.at = "sleep"
    /\ temp_file = ProgressData
    /\ found_count = 1

-----------------------------------------------------------------------------
(* C9 *)

\* C9: load_progress on a checkpoint save_progress wrote yields the written
\* records, the written found_count and the identifier last_checked + 1.
C9_RoundTrip ==
    [][ (pc = "load" /\ pc' \in {"range", "loop"} /\ Readable(temp_file)) =>
            /\ land_parcels' = temp_file.land_parcels
            /\ found_count' = temp_file.stats.found_count
            /\ current_num' = temp_file.metadata.last_checked + 1
      ]_vars

-----------------------------------------------------------------------------
(* C10 *)

\* C10: a fresh scan that exhausts its range leaves a final checkpoint with
\* last_checked = end and found_count = |F|; for range 1..5 with only
\* identifier 3 found, one record, that of 77:01:0001001:3.
C10_ExhaustionCheckpoint ==
    (Fresh /\ pc = "done" /\ current_num > rend /\ lastSave.ok) =>
        /\ temp_file.metadata.last_checked = rend
        /\ temp_file.stats.found_count = Cardinality(Found)
        /\ (rstart = 1 /\ rend = ExampleEnd) =>
              temp_file.land_parcels = <<ParcelNum(3)>>

-----------------------------------------------------------------------------
(* C11 *)

\* C11: a failure of a checkpoint read or write never propagates out of
\* save_progress or load_progress, the call returns False: a failed periodic
\* save leaves the scan state unchanged and the scan goes on with the statement
\* after the save; a failed final save is followed by the report, a failed save
\* of the except clause by the return, a failed save of the handler by
\* SystemExit; a failed load is followed by the caller's "returned False" path.
C11_StoreFailureContained ==
    [][ /\ (lastSave' # lastSave /\ lastSave'.by = "periodic" /\ ~lastSave'.ok) =>
              (pc' = "stop" /\ exc' = exc /\ UNCHANGED scanner)
        /\ (lastSave' # lastSave /\ lastSave'.by = "final" /\ ~lastSave'.ok) =>
              (pc' = "report" /\ exc' = exc /\ UNCHANGED scanner)
        /\ (lastSave' # lastSave /\ lastSave'.by = "except" /\ ~lastSave'.ok) =>
              (pc' = "failed" /\ exc' = exc /\ UNCHANGED scanner)
        /\ (lastSave' # lastSave /\ lastSave'.by = "handler" /\ ~lastSave'.ok) =>
              (exc' = "SystemExit" /\ UNCHANGED scanner)
        /\ (pc \in {"load", "mload"} /\ lastSave' = lastSave) =>
              /\ exc' = exc
              /\ pc' \in {"loop", "range", "lfail", "mfail"}
              /\ ~Readable(temp_file) => pc' \in {"lfail", "mfail"}
              /\ (Readable(temp_file) /\ ~loaded'.ret) => pc' \in {"lfail", "mfail"}
      ]_vars

C11_Witness ==
    /\ pc = "fetch"
    /\ exc = "none"
    /\ lastSave.by = "periodic"
    /\ ~lastSave.ok
    /\ lastSave.data.metadata.last_checked = save_every_num
    /\ current_num = save_every_num + 1
    /\ found_count = 1
    /\ not_found_streak = save_every_num - 1

-----------------------------------------------------------------------------
(* C12 *)

\* C12: not_found_streak increments by exactly 1 on every probe whose outcome
\* is not a find (lookup failure or explicit absence, payload without a feature
\* of the category, payload whose extraction fails); in particular the scan
\* does not go on after max_not_found consecutive such probes.
C12_MissIncrementsStreak ==
    [][ /\ (pc = "classify" /\ pc' = "ckpt") =>
              not_found_streak' = not_found_streak + 1
        /\ (/\ pc = "stop"
            /\ Fresh
            /\ current_num - max_not_found + 1 >= rstart
            /\ \A i \in (current_num - max_not_found + 1)..current_num :
                  world[i] \in Misses) => pc' # "sleep"
      ]_vars

-----------------------------------------------------------------------------
(* C13 *)

\* C13: after a probe classified as found not_found_streak is 0 whatever it was
\* before; the miss that follows a find leaves the streak at 1; the early stop
\* fires only after max_not_found consecutive probes none of which is a find.
C13_StreakReset ==
    [][ /\ (pc = "reset" /\ pc' = "ckpt") => not_found_streak' = 0
        /\ (/\ pc = "classify"
            /\ pc' = "ckpt"
            /\ classifiedTo >= 1
            /\ classifiedTo = current_num - 1
            /\ world[classifiedTo] = "found") => not_found_streak' = 1
        /\ (pc = "stop" /\ pc' = "final") =>
              /\ current_num - max_not_found + 1 >= 1
              /\ \A i \in (current_num - max_not_found + 1)..current_num :
                    world[i] # "found"
      ]_vars

-----------------------------------------------------------------------------
(* C14 *)

\* the step is the iteration's call of save_progress
PeriodicSaveCalled ==
    /\ pc = "ckpt"
    /\ \/ pc' = "ckpt_dump"
       \/ (lastSave' # lastSave /\ lastSave'.by = "periodic")

\* the step passes the iteration's checkpoint statement
PeriodicSavePassed ==
    /\ pc = "ckpt"
    /\ pc' \in {"ckpt_dump", "stop"}

\* C14 (as stated): the periodic checkpoint fires on exactly the iterations
\* where (found_count > 0 and found_count % 10 == 0) or current % 50 == 0,
\* after the iteration's outcome was applied; a scan that has found nothing
\* writes a checkpoint at every multiple of 50.
C14_TriggerAsStated ==
    [][ PeriodicSavePassed =>
           (PeriodicSaveCalled <=>
               ((found_count > 0 /\ found_count % 10 = 0) \/ current_num % 50 = 0))
      ]_vars

\* C14 (amended): the periodic checkpoint fires on exactly the iterations where
\* found_count > 0 and (found_count % 10 == 0 or current % 50 == 0), after the
\* iteration's outcome was applied; a scan that has found nothing writes no
\* periodic checkpoint.
C14_TriggerNeedsAFind ==
    [][ PeriodicSavePassed =>
           /\ PeriodicSaveCalled <=>
                 (found_count > 0 /\
                    (found_count % 10 = 0 \/ current_num % 50 = 0))
           /\ found_count = Len(land_parcels)
           /\ classifiedTo = current_num
      ]_vars

C14_Witness ==
    /\ pc = "stop"
    /\ lastSave.by = "periodic"
    /\ lastSave.at = "ckpt_dump"
    /\ found_count = save_every_found
    /\ current_num = save_every_found
    /\ lastSave.data.metadata.last_checked = current_num

-----------------------------------------------------------------------------
(* C15 *)

\* the run scans the range its checkpoint was written for, or is fresh
SameRange ==
    Readable(loaded.ckpt) =>
        /\ loaded.ckpt.metadata.start_num = start
        /\ loaded.ckpt.metadata.end_num = end

\* C15: in every reachable state start <= last_checked <= end + 1, for the
\* scanner's current identifier and for the last_checked of every checkpoint
\* written, in a fresh scan and after any number of rounds of rehydrating from
\* a checkpoint the program wrote for the range and scanning again.
C15_LastCheckedInRange ==
    SameRange =>
        /\ start <= current_num
        /\ current_num <= end + 1
        /\ lastSave.by # "none" =>
              /\ start <= lastSave.data.metadata.last_checked
              /\ lastSave.data.metadata.last_checked <= end + 1

-----------------------------------------------------------------------------
(* C16 *)

\* C16: found_count = length(records) in the scanner state at every iteration
\* boundary and after every load_progress, and in every checkpoint written
\* (periodic, final, by the interrupt handler at any point) stats.found_count
\* is the number of records stored in it.
C16_FoundCountIsLength ==
    /\ pc \in {"loop", "lfail", "mfail", "range"} => found_count = Len(land_parcels)
    /\ Readable(temp_file) =>
          temp_file.stats.found_count = Len(temp_file.land_parcels)

-----------------------------------------------------------------------------
(* C17 *)

\* C17: the interrupt handler never starts its checkpoint write while a
\* save_progress of the scan (periodic or final) has the file open, so no two
\* writes of the file interleave and the file the handler reported written is
\* the complete snapshot it took.
C17_HandlerWaitsForWrite ==
    lastSave.by = "handler" =>
        /\ lastSave.at \notin DumpPcs
        /\ lastSave.ok => temp_file = lastSave.data

-----------------------------------------------------------------------------
(* C18 *)

\* C18: within one scan() the identifiers are looked up in strictly ascending
\* order, consecutive lookups differ by exactly 1, so each identifier gets one
\* lookup; a failed lookup is not retried: it counts as one miss, adds no
\* record, and the scan goes on to the checkpoint test and the next identifier.
C18_OneLookupEach ==
    [][ /\ (pc = "fetch" /\ pc' = "classify") =>
              /\ probed' = current_num
              /\ probed # 0 => probed' = probed + 1
        /\ (pc = "classify" /\ data = "None" /\ pc' # "raised") =>
              /\ pc' = "ckpt"
              /\ not_found_streak' = not_found_streak + 1
              /\ UNCHANGED <<current_num, land_parcels, found_count, probed>>
        /\ (pc = "advance" /\ pc' = "loop") =>
              (current_num' = probed + 1 /\ probed' = probed)
      ]_vars

C18_Witness ==
    /\ pc = "classify"
    /\ probed = 2
    /\ current_num = 2
    /\ world[1] = "none"
    /\ not_found_streak = 1
    /\ land_parcels = <<>>

-----------------------------------------------------------------------------
(* C19 *)

\* C19: a fresh scan with start = end makes exactly one lookup and, when that
\* probe is a miss, ends by exhaustion of the range (not by the early stop)
\* with not_found_streak = 1, no records and the final checkpoint write.
C19_SingleIdentifierMiss ==
    (Fresh /\ rstart = rend /\ world[rstart] \in Misses /\ pc = "done") =>
        /\ probed = rstart
        /\ classifiedTo = rstart
        /\ current_num = rend + 1
        /\ not_found_streak = 1
        /\ land_parcels = <<>>
        /\ lastSave.by = "final"

-----------------------------------------------------------------------------
(* C20 *)

\* C20: a load_progress that returned False leaves the scanner state as it
\* was: no records, found_count 0, the current identifier at start; the scan
\* main() runs after it starts with no stored record.
C20_FailedLoadChangesNothing ==
    /\ pc \in {"lfail", "mfail"} =>
          /\ land_parcels = <<>>
          /\ found_count = 0
          /\ current_num = start
    /\ (pc = "loop" /\ loaded.via = "mload" /\ ~loaded.ret) => land_parcels = <<>>

====
